---- MODULE Spec2Model ----
(***************************************************************************)
(* Model of the multi-core job scheduler of libscheduler.c and of the      *)
(* ordered ready queue of libpriqueue.c.                                   *)
(*                                                                         *)
(* Job structs live in `heap` (pointer -> struct); the ready queue is the  *)
(* sequence of data pointers of the linked list, head first; cpuJobs is    *)
(* the array cpu.jobs.  Every handler is one action: the helper operators  *)
(* below transform a record `m` holding the globals of the program, and    *)
(* the action commits the record the handler ends with.                    *)
(***************************************************************************)
EXTENDS Integers, Sequences, FiniteSets, TLC

\* ---------------------------------------------------------------- bounds
MaxCores == 2
MaxJobs == 3
MaxTime == 3
MaxQueue == 3

\* The jobs the driver submits: <<running_time, priority>>.  Two jobs of run
\* time 4 that started at different times both have more time left than a
\* job of run time 1 arriving after them.
JobKinds == {<<1, 0>>, <<2, 1>>, <<4, 2>>}

\* ------------------------------------------------------------- constants
NULL == 0
Schemes == {"FCFS", "SJF", "PSJF", "PRI", "PPRI", "RR"}

VARIABLES
  status,               \* "new" | "running" | "exit" | "segv"
  curScheme,            \* scheme_t curScheme
  nCores,               \* cpu.nCores
  cpuJobs,              \* cpu.jobs : core index -> job pointer or NULL
  mQueue,               \* the list of mQueue, as the sequence of data pointers
  heap,                 \* allocated job_t structs, by pointer
  nAlloc,               \* number of job_t allocated so far
  currentTime,
  totalWaitTime, numWaiting,
  totalRespTime, numResponse,
  totalTurnAroundTime, numTurnAround,
  freed,                \* history: the job the last call freed (by pointer) and what it was credited
  lastArrival,          \* driver: time of the latest job_arrived
  call,                 \* history: the last call made by the driver
  ret                   \* history: what that call returned

vars == <<status, curScheme, nCores, cpuJobs, mQueue, heap, nAlloc, currentTime,
          totalWaitTime, numWaiting, totalRespTime, numResponse,
          totalTurnAroundTime, numTurnAround, freed, lastArrival, call, ret>>

Cores == 0 .. (nCores - 1)

\* ------------------------------------------------------------ comparator
compare_RRFallsThrough(jobA, jobB) ==
  LET arrivalTimeDiff == jobA.arrivalTime - jobB.arrivalTime
      runTimeDiff == jobA.runTime - jobB.runTime
      remainingTimeDiff == jobA.remainingTime - jobB.remainingTime
      priorityDiff == jobA.priority - jobB.priority
  IN CASE curScheme = "FCFS" -> arrivalTimeDiff
       [] curScheme = "SJF" -> IF runTimeDiff = 0 THEN arrivalTimeDiff ELSE runTimeDiff
       [] curScheme = "PSJF" -> IF remainingTimeDiff = 0 THEN arrivalTimeDiff
                                ELSE remainingTimeDiff
       [] curScheme = "PRI" -> IF priorityDiff = 0 THEN arrivalTimeDiff ELSE priorityDiff
       [] curScheme = "PPRI" -> IF priorityDiff = 0 THEN arrivalTimeDiff ELSE priorityDiff
       [] curScheme = "RR" -> arrivalTimeDiff
       [] OTHER -> 0

compare_NoTieBreak(jobA, jobB) ==
  LET arrivalTimeDiff == jobA.arrivalTime - jobB.arrivalTime
      runTimeDiff == jobA.runTime - jobB.runTime
      remainingTimeDiff == jobA.remainingTime - jobB.remainingTime
      priorityDiff == jobA.priority - jobB.priority
  IN CASE curScheme = "FCFS" -> arrivalTimeDiff
       [] curScheme = "SJF" -> runTimeDiff
       [] curScheme = "PSJF" -> remainingTimeDiff
       [] curScheme = "PRI" -> priorityDiff
       [] curScheme = "PPRI" -> priorityDiff
       [] curScheme = "RR" -> 0
       [] OTHER -> 0

compare(jobA, jobB) ==
  LET arrivalTimeDiff == jobA.arrivalTime - jobB.arrivalTime
      runTimeDiff == jobA.runTime - jobB.runTime
      remainingTimeDiff == jobA.remainingTime - jobB.remainingTime
      priorityDiff == jobA.priority - jobB.priority
  IN CASE curScheme = "FCFS" -> arrivalTimeDiff
       [] curScheme = "SJF" -> IF runTimeDiff = 0 THEN arrivalTimeDiff ELSE runTimeDiff
       [] curScheme = "PSJF" -> IF remainingTimeDiff = 0 THEN arrivalTimeDiff
                                ELSE remainingTimeDiff
       [] curScheme = "PRI" -> IF priorityDiff = 0 THEN arrivalTimeDiff ELSE priorityDiff
       [] curScheme = "PPRI" -> IF priorityDiff = 0 THEN arrivalTimeDiff ELSE priorityDiff
       [] curScheme = "RR" -> 0
       [] OTHER -> 0

\* ----------------------------------------------------------- ready queue
\* Insertion of x at zero-based index i of sequence q.
InsertAt(q, i, x) == SubSeq(q, 1, i) \o <<x>> \o SubSeq(q, i + 1, Len(q))

\* The zero-based index priqueue_offer stores ptr at (and returns); h is the
\* memory the comparer reads the two structs from.
priqueue_offer_index_NotStable(q, ptr, h) ==
  IF Len(q) = 0 THEN 0
  ELSE IF compare(h[ptr], h[q[1]]) <= 0 THEN 0
  ELSE LET stops == {i \in 1 .. Len(q) :
                       i = Len(q) \/ compare(h[ptr], h[q[i + 1]]) <= 0}
       IN CHOOSE i \in stops : \A k \in stops : i <= k

priqueue_offer_index(q, ptr, h) ==
  IF Len(q) = 0 THEN 0
  ELSE IF compare(h[ptr], h[q[1]]) < 0 THEN 0
  ELSE \* traverse is the i-th node (one-based) when the loop variable is i-1
       LET stops == {i \in 1 .. Len(q) :
                       i = Len(q) \/ compare(h[ptr], h[q[i + 1]]) < 0}
       IN CHOOSE i \in stops : \A k \in stops : i <= k

priqueue_offer(q, ptr, h) == InsertAt(q, priqueue_offer_index(q, ptr, h), ptr)

priqueue_peek(q) == IF Len(q) > 0 THEN q[1] ELSE NULL

\* priqueue_poll: the data returned, and the queue left.
priqueue_poll_LastNode(q) ==
  IF Len(q) > 0 THEN [data |-> q[Len(q)], queue |-> SubSeq(q, 1, Len(q) - 1)]
  ELSE [data |-> NULL, queue |-> q]

priqueue_poll_NeverData(q) == [data |-> NULL, queue |-> q]

priqueue_poll(q) ==
  IF Len(q) > 0 THEN [data |-> Head(q), queue |-> Tail(q)]
  ELSE [data |-> NULL, queue |-> q]

priqueue_remove_SkipsHead(q, ptr) ==
  IF Len(q) = 0 THEN q ELSE <<Head(q)>> \o SelectSeq(Tail(q), LAMBDA d : d # ptr)

\* priqueue_remove: every node whose data is ptr is unlinked.
priqueue_remove(q, ptr) == SelectSeq(q, LAMBDA d : d # ptr)

priqueue_remove_count(q, ptr) == Len(q) - Len(priqueue_remove(q, ptr))

priqueue_size(q) == Len(q)

\* priqueue_init: head = NULL, size = 0; nodes the queue held are not freed.
priqueue_init(q) == <<>>

\* priqueue_destroy: polls until poll returns NULL.
RECURSIVE priqueue_destroy(_)
priqueue_destroy(q) ==
  LET p == priqueue_poll(q) IN
  IF p.data # NULL THEN priqueue_destroy(p.queue) ELSE p.queue

\* priqueue_at: the only test is index < size.  With a negative index the
\* loop does not run and the data of the head node is read: undefined when
\* head is NULL.  status "ub" marks undefined behaviour.
priqueue_at(q, index) ==
  IF index < Len(q)
  THEN IF index < 0
       THEN IF Len(q) = 0 THEN [status |-> "ub", data |-> NULL, queue |-> q]
            ELSE [status |-> "running", data |-> q[1], queue |-> q]
       ELSE [status |-> "running", data |-> q[index + 1], queue |-> q]
  ELSE [status |-> "running", data |-> NULL, queue |-> q]

\* priqueue_remove_at: prev is still NULL when the loop has not run (index
\* <= 0), and prev->nextNode is then written.
priqueue_remove_at(q, index) ==
  IF index < Len(q)
  THEN IF index <= 0
       THEN [status |-> "ub", data |-> NULL, queue |-> q]
       ELSE [status |-> "running", data |-> q[index + 1],
             queue |-> SubSeq(q, 1, index) \o SubSeq(q, index + 2, Len(q))]
  ELSE [status |-> "running", data |-> NULL, queue |-> q]

\* ------------------------------------------------------------ core array
\* The globals of the program, as the record the helpers transform.
Globals ==
  [status |-> status, heap |-> heap, jobs |-> cpuJobs, queue |-> mQueue,
   currentTime |-> currentTime,
   totalWaitTime |-> totalWaitTime, numWaiting |-> numWaiting,
   totalRespTime |-> totalRespTime, numResponse |-> numResponse,
   totalTurnAroundTime |-> totalTurnAroundTime, numTurnAround |-> numTurnAround,
   freed |-> freed]

\* One iteration of the loop of cpuUpdateTime, for core i.
cpuUpdateCore_InitIsNow(m, i, time) ==
  LET job == m.jobs[i] IN
  IF job = NULL THEN m
  ELSE LET j == m.heap[job]
           credit == j.initTime = -1 /\ j.lastTime # time
           j1 == IF credit THEN [j EXCEPT !.initTime = time] ELSE j
           j2 == [j1 EXCEPT !.remainingTime = j1.remainingTime - (time - j1.lastTime),
                            !.lastTime = time]
       IN [m EXCEPT !.heap = [m.heap EXCEPT ![job] = j2],
                    !.totalRespTime = IF credit THEN @ + (j1.initTime - j1.arrivalTime)
                                      ELSE @,
                    !.numResponse = IF credit THEN @ + 1 ELSE @]

cpuUpdateCore_CreditsSameTime(m, i, time) ==
  LET job == m.jobs[i] IN
  IF job = NULL THEN m
  ELSE LET j == m.heap[job]
           credit == j.initTime = -1
           j1 == IF credit THEN [j EXCEPT !.initTime = j.lastTime] ELSE j
           j2 == [j1 EXCEPT !.remainingTime = j1.remainingTime - (time - j1.lastTime),
                            !.lastTime = time]
       IN [m EXCEPT !.heap = [m.heap EXCEPT ![job] = j2],
                    !.totalRespTime = IF credit THEN @ + (j1.initTime - j1.arrivalTime)
                                      ELSE @,
                    !.numResponse = IF credit THEN @ + 1 ELSE @]

cpuUpdateCore_KeepsLastTime(m, i, time) ==
  LET job == m.jobs[i] IN
  IF job = NULL THEN m
  ELSE LET j == m.heap[job]
           credit == j.initTime = -1 /\ j.lastTime # time
           j1 == IF credit THEN [j EXCEPT !.initTime = j.lastTime] ELSE j
           j2 == [j1 EXCEPT !.remainingTime = j1.remainingTime - (time - j1.lastTime)]
       IN [m EXCEPT !.heap = [m.heap EXCEPT ![job] = j2],
                    !.totalRespTime = IF credit THEN @ + (j1.initTime - j1.arrivalTime)
                                      ELSE @,
                    !.numResponse = IF credit THEN @ + 1 ELSE @]

cpuUpdateCore(m, i, time) ==
  LET job == m.jobs[i] IN
  IF job = NULL THEN m
  ELSE LET j == m.heap[job]
           credit == j.initTime = -1 /\ j.lastTime # time
           j1 == IF credit THEN [j EXCEPT !.initTime = j.lastTime] ELSE j
           j2 == [j1 EXCEPT !.remainingTime = j1.remainingTime - (time - j1.lastTime),
                            !.lastTime = time]
       IN [m EXCEPT !.heap = [m.heap EXCEPT ![job] = j2],
                    !.totalRespTime = IF credit THEN @ + (j1.initTime - j1.arrivalTime)
                                      ELSE @,
                    !.numResponse = IF credit THEN @ + 1 ELSE @]

RECURSIVE cpuUpdateLoop(_, _, _)
cpuUpdateLoop(m, i, time) ==
  IF i >= nCores THEN m
  ELSE cpuUpdateLoop(cpuUpdateCore(m, i, time), i + 1, time)

cpuUpdateTime(m, time) ==
  cpuUpdateLoop([m EXCEPT !.currentTime = time], 0, time)

cpuCoresAvailable_Highest(m) ==
  IF \E i \in Cores : m.jobs[i] = NULL
  THEN CHOOSE i \in Cores : m.jobs[i] = NULL /\ \A k \in Cores : m.jobs[k] = NULL => k <= i
  ELSE -1

cpuCoresAvailable(m) ==
  IF \E i \in Cores : m.jobs[i] = NULL
  THEN CHOOSE i \in Cores : m.jobs[i] = NULL /\ \A k \in Cores : m.jobs[k] = NULL => i <= k
  ELSE -1

cpuCoreAssignJob(m, index, job) ==
  IF m.status # "running" THEN m
  ELSE IF m.jobs[index] # NULL THEN [m EXCEPT !.status = "exit"]
  ELSE [m EXCEPT !.jobs = [@ EXCEPT ![index] = job],
                 !.heap = [@ EXCEPT ![job].lastTime = m.currentTime]]

cpuCoreRemoveJob_NoOffer(m, core_id, job_number) ==
  IF m.status # "running" THEN m
  ELSE IF core_id < 0 \/ core_id >= nCores THEN [m EXCEPT !.status = "exit"]
  ELSE IF m.jobs[core_id] = NULL THEN [m EXCEPT !.status = "ub"]
  ELSE IF m.heap[m.jobs[core_id]].jobNumber # job_number THEN [m EXCEPT !.status = "exit"]
  ELSE LET job == m.jobs[core_id]
           h == [m.heap EXCEPT ![job].lastTime = -1]
       IN [m EXCEPT !.heap = h,
                    !.jobs = [@ EXCEPT ![core_id] = NULL]]

\* status "ub" marks undefined behaviour: a read through a NULL slot.
cpuCoreRemoveJob(m, core_id, job_number) ==
  IF m.status # "running" THEN m
  ELSE IF core_id < 0 \/ core_id >= nCores THEN [m EXCEPT !.status = "exit"]
  ELSE IF m.jobs[core_id] = NULL THEN [m EXCEPT !.status = "ub"]
  ELSE IF m.heap[m.jobs[core_id]].jobNumber # job_number THEN [m EXCEPT !.status = "exit"]
  ELSE LET job == m.jobs[core_id]
           h == [m.heap EXCEPT ![job].lastTime = -1]
       IN [m EXCEPT !.heap = h,
                    !.jobs = [@ EXCEPT ![core_id] = NULL],
                    !.queue = priqueue_offer(m.queue, job, h)]

\* The scan of cpuCorePreempt from core i on: the core index it ends with.
RECURSIVE cpuPreemptScan_FirstWorse(_, _, _, _, _)
cpuPreemptScan_FirstWorse(m, job, i, currCompare, cpuIndex) ==
  IF i >= nCores THEN cpuIndex
  ELSE LET prevCompare == compare(m.heap[job], m.heap[m.jobs[i]]) IN
       IF prevCompare < 0 /\ cpuIndex = -1
       THEN cpuPreemptScan_FirstWorse(m, job, i + 1, prevCompare, i)
       ELSE cpuPreemptScan_FirstWorse(m, job, i + 1, currCompare, cpuIndex)

RECURSIVE cpuPreemptScan_Timid(_, _, _, _, _)
cpuPreemptScan_Timid(m, job, i, currCompare, cpuIndex) ==
  IF i >= nCores THEN cpuIndex
  ELSE LET prevCompare == compare(m.heap[job], m.heap[m.jobs[i]]) IN
       IF prevCompare < currCompare - 1
       THEN cpuPreemptScan_Timid(m, job, i + 1, prevCompare, i)
       ELSE cpuPreemptScan_Timid(m, job, i + 1, currCompare, cpuIndex)

RECURSIVE cpuPreemptScan(_, _, _, _, _)
cpuPreemptScan(m, job, i, currCompare, cpuIndex) ==
  IF i >= nCores THEN cpuIndex
  ELSE LET prevCompare == compare(m.heap[job], m.heap[m.jobs[i]]) IN
       IF prevCompare < currCompare
       THEN cpuPreemptScan(m, job, i + 1, prevCompare, i)
       ELSE IF prevCompare = currCompare /\ cpuIndex # -1
               /\ m.heap[m.jobs[cpuIndex]].arrivalTime < m.heap[m.jobs[i]].arrivalTime
       THEN cpuPreemptScan(m, job, i + 1, currCompare, i)
       ELSE cpuPreemptScan(m, job, i + 1, currCompare, cpuIndex)

\* cpuCorePreempt: the globals it leaves and the core index it returns.
cpuCorePreempt(m, job) ==
  IF m.status # "running" THEN [m |-> m, ret |-> -1]
  ELSE IF cpuCoresAvailable(m) # -1 THEN [m |-> [m EXCEPT !.status = "exit"], ret |-> -1]
  ELSE LET cpuIndex == cpuPreemptScan(m, job, 0, 0, -1) IN
       IF cpuIndex >= 0
       THEN [m |-> cpuCoreAssignJob(
                     cpuCoreRemoveJob(m, cpuIndex, m.heap[m.jobs[cpuIndex]].jobNumber),
                     cpuIndex, job),
             ret |-> cpuIndex]
       ELSE [m |-> m, ret |-> cpuIndex]

\* -------------------------------------------------------------- handlers
\* The test of scheduler_new_job that sends a job with no idle core to
\* cpuCorePreempt.
schemePreempts_OnlyPPRI == curScheme = "PPRI"

schemePreempts_AlsoPRI == curScheme \in {"PSJF", "PPRI", "PRI"}

schemePreempts == curScheme = "PSJF" \/ curScheme = "PPRI"

\* The job_t scheduler_new_job fills in.
NewJobStruct(job_number, time, running_time, priority) ==
  [jobNumber |-> job_number, arrivalTime |-> time, runTime |-> running_time,
   remainingTime |-> running_time, priority |-> priority,
   initTime |-> -1, lastTime |-> -1]

\* scheduler_start_up: the globals it leaves (the queue empty, every core
\* NULL, the clock at 0).
scheduler_start_up(m, cores) ==
  [m EXCEPT !.status = "running", !.queue = <<>>,
            !.jobs = [i \in 0 .. (cores - 1) |-> NULL], !.currentTime = 0]

\* Each handler: the globals it leaves and the value it returns.  `job` is
\* the pointer malloc returns for the new struct.
scheduler_new_job(m, job, job_number, time, running_time, priority) ==
  LET m1 == cpuUpdateTime(m, time)
      m2 == [m1 EXCEPT !.heap = (job :> NewJobStruct(job_number, time, running_time,
                                                     priority)) @@ @]
      workingCore == cpuCoresAvailable(m2)
  IN IF workingCore # -1
     THEN [m |-> cpuCoreAssignJob(m2, workingCore, job), ret |-> workingCore]
     ELSE IF schemePreempts
     THEN LET pr == cpuCorePreempt(m2, job) IN
          IF pr.ret = -1
          THEN [m |-> [pr.m EXCEPT !.queue = priqueue_offer(@, job, pr.m.heap)],
                ret |-> pr.ret]
          ELSE pr
     ELSE [m |-> [m2 EXCEPT !.queue = priqueue_offer(@, job, m2.heap)], ret |-> -1]

\* The tail shared by job_finished and quantum_expired: poll, and assign
\* what was polled to core_id.
PollAndAssign_NoPoll(m, core_id) == [m |-> m, ret |-> -1]

PollAndAssign(m, core_id) ==
  LET p == priqueue_poll(m.queue) IN
  IF p.data # NULL
  THEN [m |-> cpuCoreAssignJob([m EXCEPT !.queue = p.queue], core_id, p.data),
        ret |-> m.heap[p.data].jobNumber]
  ELSE [m |-> m, ret |-> -1]

scheduler_job_finished(m, core_id, job_number, time) ==
  LET m1 == cpuUpdateTime(m, time)
      m2 == cpuCoreRemoveJob(m1, core_id, job_number)
  IN IF m2.status # "running" THEN [m |-> m2, ret |-> -1]
     ELSE LET job == m1.jobs[core_id]
              j == m2.heap[job]
              wait == m2.currentTime - j.arrivalTime - j.runTime
              turnaround == m2.currentTime - j.arrivalTime
              m3 == [m2 EXCEPT
                       !.queue = priqueue_remove(@, job),
                       !.totalWaitTime = @ + wait,
                       !.numWaiting = @ + 1,
                       !.totalTurnAroundTime = @ + turnaround,
                       !.numTurnAround = @ + 1,
                       !.freed = (job :> [job |-> j, time |-> m2.currentTime,
                                          wait |-> wait, turnaround |-> turnaround]),
                       !.heap = [p \in (DOMAIN m2.heap) \ {job} |-> m2.heap[p]]]
          IN PollAndAssign(m3, core_id)

scheduler_quantum_expired(m, core_id, time) ==
  LET m1 == cpuUpdateTime(m, time) IN
  \* the argument cpu.jobs[core_id]->jobNumber is read before the call
  IF core_id < 0 \/ core_id >= nCores THEN [m |-> [m1 EXCEPT !.status = "ub"], ret |-> -1]
  ELSE IF m1.jobs[core_id] = NULL THEN [m |-> [m1 EXCEPT !.status = "ub"], ret |-> -1]
  ELSE LET m2 == cpuCoreRemoveJob(m1, core_id, m1.heap[m1.jobs[core_id]].jobNumber) IN
       IF m2.status # "running" THEN [m |-> m2, ret |-> -1]
       ELSE PollAndAssign(m2, core_id)

\* The do-while of scheduler_clean_up: poll and free until poll returns
\* NULL.
RECURSIVE cleanUpLoop(_)
cleanUpLoop(m) ==
  LET p == priqueue_poll(m.queue) IN
  IF p.data # NULL
  THEN cleanUpLoop([m EXCEPT !.queue = p.queue,
                             !.heap = [x \in (DOMAIN m.heap) \ {p.data} |-> m.heap[x]]])
  ELSE [m EXCEPT !.queue = p.queue]

\* scheduler_clean_up: the queued structs, cpu.jobs and the queue are freed;
\* the structs of the jobs on cores are not.  Status "done": the library has
\* had its last call.
scheduler_clean_up(m) ==
  LET m1 == cleanUpLoop(m) IN
  [m1 EXCEPT !.jobs = <<>>,
             !.queue = priqueue_destroy(m1.queue),
             !.status = "done"]

\* --------------------------------------------------------------- actions
\* What the process can end as once a handler has left the defined
\* behaviour: killed by the invalid read, or carried on to an exit(1).
Outcomes(s) == IF s = "ub" THEN {"segv", "exit"} ELSE {s}

NoCall == [op |-> "none", core_id |-> -1, job_number |-> -1, job |-> NULL, valid |-> TRUE]

\* The handler ended with r = [m, ret]; c is the call made.
Commit(r, c) ==
  /\ call' = c
  /\ IF r.m.status = "running"
     THEN /\ status' = r.m.status
          /\ heap' = r.m.heap
          /\ cpuJobs' = r.m.jobs
          /\ mQueue' = r.m.queue
          /\ currentTime' = r.m.currentTime
          /\ totalWaitTime' = r.m.totalWaitTime
          /\ numWaiting' = r.m.numWaiting
          /\ totalRespTime' = r.m.totalRespTime
          /\ numResponse' = r.m.numResponse
          /\ totalTurnAroundTime' = r.m.totalTurnAroundTime
          /\ numTurnAround' = r.m.numTurnAround
          \* what this call freed
          /\ freed' = IF c.op = "job_finished" THEN r.m.freed ELSE <<>>
          /\ ret' = r.ret
     ELSE \* the process is gone, and its memory with it
          /\ status' \in Outcomes(r.m.status)
          /\ heap' = <<>>
          /\ cpuJobs' = <<>>
          /\ mQueue' = <<>>
          /\ freed' = <<>>
          /\ currentTime' = 0
          /\ totalWaitTime' = 0 /\ numWaiting' = 0
          /\ totalRespTime' = 0 /\ numResponse' = 0
          /\ totalTurnAroundTime' = 0 /\ numTurnAround' = 0
          /\ ret' = -1

Init ==
  /\ status = "new"
  /\ curScheme = "FCFS"
  /\ nCores = 0
  /\ cpuJobs = <<>>
  /\ mQueue = <<>>
  /\ heap = <<>>
  /\ nAlloc = 0
  /\ currentTime = 0
  /\ totalWaitTime = 0 /\ numWaiting = 0
  /\ totalRespTime = 0 /\ numResponse = 0
  /\ totalTurnAroundTime = 0 /\ numTurnAround = 0
  /\ freed = <<>>
  /\ lastArrival = -1
  /\ call = NoCall
  /\ ret = -1

StartUp ==
  /\ status = "new"
  /\ \E cores \in 1 .. MaxCores, scheme \in Schemes :
       /\ curScheme' = scheme
       /\ nCores' = cores
       /\ Commit([m |-> scheduler_start_up(Globals, cores), ret |-> ret],
                 [NoCall EXCEPT !.op = "start_up"])
  /\ UNCHANGED <<nAlloc, lastArrival>>

\* job_arrived: ids are handed out in sequence, arrival times are unique.
NewJob ==
  /\ status = "running"
  /\ nAlloc < MaxJobs
  /\ \E time \in currentTime .. MaxTime, kind \in JobKinds :
       /\ time > lastArrival
       /\ Commit(scheduler_new_job(Globals, nAlloc + 1, nAlloc, time, kind[1], kind[2]),
                 [NoCall EXCEPT !.op = "new_job", !.job_number = nAlloc,
                                !.job = nAlloc + 1])
       /\ lastArrival' = time
  /\ nAlloc' = nAlloc + 1
  /\ UNCHANGED <<curScheme, nCores>>

JobFinished ==
  /\ status = "running"
  /\ \E core_id \in Cores, time \in currentTime .. MaxTime :
       /\ cpuJobs[core_id] # NULL
       /\ Commit(scheduler_job_finished(Globals, core_id, heap[cpuJobs[core_id]].jobNumber,
                                        time),
                 [NoCall EXCEPT !.op = "job_finished", !.core_id = core_id,
                                !.job_number = heap[cpuJobs[core_id]].jobNumber,
                                !.job = cpuJobs[core_id]])
  /\ UNCHANGED <<curScheme, nCores, nAlloc, lastArrival>>

QuantumExpired ==
  /\ status = "running"
  /\ curScheme = "RR"
  /\ \E core_id \in Cores, time \in currentTime .. MaxTime :
       /\ cpuJobs[core_id] # NULL
       /\ Commit(scheduler_quantum_expired(Globals, core_id, time),
                 [NoCall EXCEPT !.op = "quantum_expired", !.core_id = core_id,
                                !.job_number = heap[cpuJobs[core_id]].jobNumber,
                                !.job = cpuJobs[core_id]])
  /\ UNCHANGED <<curScheme, nCores, nAlloc, lastArrival>>

\* The last call of a run, which the driver may make at any point.
CleanUp ==
  /\ status = "running"
  /\ LET m == scheduler_clean_up(Globals) IN
     /\ status' = m.status
     /\ heap' = m.heap
     /\ cpuJobs' = m.jobs
     /\ mQueue' = m.queue
  /\ freed' = <<>>
  /\ call' = [NoCall EXCEPT !.op = "clean_up"]
  /\ UNCHANGED <<curScheme, nCores, nAlloc, currentTime, totalWaitTime, numWaiting,
                 totalRespTime, numResponse, totalTurnAroundTime, numTurnAround,
                 lastArrival, ret>>

\* The driver breaks a precondition of job_finished: a core id out of range,
\* an empty slot, or a job id that is not the occupant's.
JobFinishedViolation ==
  /\ status = "running"
  /\ \E core_id \in -1 .. nCores, job_number \in 0 .. MaxJobs, time \in currentTime .. MaxTime :
       /\ IF core_id \notin Cores THEN TRUE
          ELSE IF cpuJobs[core_id] = NULL THEN TRUE
          ELSE heap[cpuJobs[core_id]].jobNumber # job_number
       /\ Commit(scheduler_job_finished(Globals, core_id, job_number, time),
                 [NoCall EXCEPT !.op = "job_finished", !.core_id = core_id,
                                !.job_number = job_number, !.valid = FALSE])
  /\ UNCHANGED <<curScheme, nCores, nAlloc, lastArrival>>

\* The driver breaks a precondition of quantum_expired: a core id out of
\* range, or an empty slot.
QuantumExpiredViolation ==
  /\ status = "running"
  /\ curScheme = "RR"
  /\ \E core_id \in -1 .. nCores, time \in currentTime .. MaxTime :
       /\ IF core_id \notin Cores THEN TRUE ELSE cpuJobs[core_id] = NULL
       /\ Commit(scheduler_quantum_expired(Globals, core_id, time),
                 [NoCall EXCEPT !.op = "quantum_expired", !.core_id = core_id,
                                !.valid = FALSE])
  /\ UNCHANGED <<curScheme, nCores, nAlloc, lastArrival>>

\* The driver keeps to the contract of the event API.
Next ==
  \/ StartUp
  \/ NewJob
  \/ JobFinished
  \/ QuantumExpired
  \/ CleanUp

Spec == Init /\ [][Next]_vars

\* The driver may also break a precondition; the process then ends.
NextMisuse ==
  \/ StartUp
  \/ NewJob
  \/ JobFinished
  \/ QuantumExpired
  \/ CleanUp
  \/ JobFinishedViolation
  \/ QuantumExpiredViolation

SpecMisuse == Init /\ [][NextMisuse]_vars

\* ------------------------------------------------- a driver with a script
\* The simulator with a fixed job file: arrivals <<id, time, running time>>
\* in time order, job_finished delivered when the remaining time of a
\* running job reaches zero, no time slices.
ScenarioJobs == << <<1, 0, 7>>, <<2, 2, 4>>, <<3, 4, 1>> >>
ScenarioPriorities == {0, 1}

\* When the job on a busy core runs out, given that after every handler the
\* job's lastTime is the current time.
DueTime(core_id) == currentTime + heap[cpuJobs[core_id]].remainingTime

BusyCores == {i \in Cores : cpuJobs[i] # NULL}

ScenarioStartUp ==
  /\ status = "new"
  /\ \E cores \in 1 .. MaxCores, scheme \in Schemes \ {"RR"} :
       /\ curScheme' = scheme
       /\ nCores' = cores
       /\ Commit([m |-> scheduler_start_up(Globals, cores), ret |-> ret],
                 [NoCall EXCEPT !.op = "start_up"])
  /\ UNCHANGED <<nAlloc, lastArrival>>

ScenarioNewJob ==
  /\ status = "running"
  /\ nAlloc < Len(ScenarioJobs)
  /\ LET job == ScenarioJobs[nAlloc + 1] IN
     /\ \A i \in BusyCores : DueTime(i) >= job[2]
     /\ \E priority \in ScenarioPriorities :
          Commit(scheduler_new_job(Globals, nAlloc + 1, job[1], job[2], job[3], priority),
                 [NoCall EXCEPT !.op = "new_job", !.job_number = job[1],
                                !.job = nAlloc + 1])
     /\ lastArrival' = job[2]
  /\ nAlloc' = nAlloc + 1
  /\ UNCHANGED <<curScheme, nCores>>

ScenarioJobFinished ==
  /\ status = "running"
  /\ \E core_id \in BusyCores :
       /\ \A i \in BusyCores : DueTime(core_id) <= DueTime(i)
       /\ nAlloc < Len(ScenarioJobs) => DueTime(core_id) <= ScenarioJobs[nAlloc + 1][2]
       /\ Commit(scheduler_job_finished(Globals, core_id, heap[cpuJobs[core_id]].jobNumber,
                                        DueTime(core_id)),
                 [NoCall EXCEPT !.op = "job_finished", !.core_id = core_id,
                                !.job_number = heap[cpuJobs[core_id]].jobNumber,
                                !.job = cpuJobs[core_id]])
  /\ UNCHANGED <<curScheme, nCores, nAlloc, lastArrival>>

\* The simulator cleans up when the job file is done.
ScenarioCleanUp ==
  /\ nAlloc = Len(ScenarioJobs)
  /\ heap = <<>>
  /\ CleanUp

NextScenario ==
  \/ ScenarioStartUp
  \/ ScenarioNewJob
  \/ ScenarioJobFinished
  \/ ScenarioCleanUp

SpecScenario == Init /\ [][NextScenario]_vars

\* ------------------------------------------------- a driver on time
\* The simulator's clock: no event comes after the time at which a running
\* job runs out, job_finished comes at that time, and a time slice ends
\* only for a job that has time left.
NoneOverdue(time) == \A i \in BusyCores : time <= DueTime(i)

DriverNewJob ==
  /\ status = "running"
  /\ nAlloc < MaxJobs
  /\ \E time \in currentTime .. MaxTime, kind \in JobKinds :
       /\ time > lastArrival
       /\ NoneOverdue(time)
       /\ Commit(scheduler_new_job(Globals, nAlloc + 1, nAlloc, time, kind[1], kind[2]),
                 [NoCall EXCEPT !.op = "new_job", !.job_number = nAlloc,
                                !.job = nAlloc + 1])
       /\ lastArrival' = time
  /\ nAlloc' = nAlloc + 1
  /\ UNCHANGED <<curScheme, nCores>>

\* The call of job_finished for the job on core_id.
JobFinishedCall(core_id) ==
  [NoCall EXCEPT !.op = "job_finished", !.core_id = core_id,
                 !.job_number = heap[cpuJobs[core_id]].jobNumber,
                 !.job = cpuJobs[core_id]]

DriverJobFinished ==
  /\ status = "running"
  /\ \E core_id \in BusyCores :
       /\ NoneOverdue(DueTime(core_id))
       /\ Commit(scheduler_job_finished(Globals, core_id, heap[cpuJobs[core_id]].jobNumber,
                                        DueTime(core_id)),
                 JobFinishedCall(core_id))
  /\ UNCHANGED <<curScheme, nCores, nAlloc, lastArrival>>

DriverQuantumExpired ==
  /\ status = "running"
  /\ curScheme = "RR"
  /\ \E core_id \in BusyCores :
       \E time \in currentTime .. MaxTime :
         /\ time < DueTime(core_id)
         /\ NoneOverdue(time)
         /\ Commit(scheduler_quantum_expired(Globals, core_id, time),
                   [NoCall EXCEPT !.op = "quantum_expired", !.core_id = core_id,
                                  !.job_number = heap[cpuJobs[core_id]].jobNumber,
                                  !.job = cpuJobs[core_id]])
  /\ UNCHANGED <<curScheme, nCores, nAlloc, lastArrival>>

\* The simulator cleans up once every job that arrived has finished.
DriverCleanUp ==
  /\ heap = <<>>
  /\ CleanUp

NextDriver ==
  \/ StartUp
  \/ DriverNewJob
  \/ DriverJobFinished
  \/ DriverQuantumExpired
  \/ DriverCleanUp

SpecDriver == Init /\ [][NextDriver]_vars

\* The driver's part of DriverJobFinished: the call is made.  The handler
\* always returns, so the event is enabled exactly when this call is.
JobFinishedDelivered ==
  /\ status = "running"
  /\ \E core_id \in BusyCores :
       /\ NoneOverdue(DueTime(core_id))
       /\ call' = JobFinishedCall(core_id)

\* The simulator does not stop while a job is running: it goes on to the
\* time the next running job runs out and delivers job_finished.
SpecDriverFair == SpecDriver /\ WF_call(JobFinishedDelivered)

\* ------------------------------------------------- the comparator on its own
\* The structs handed to compare: <<runTime, remainingTime, priority>> and
\* an arrival time.
CompareKinds == {<<1, 1, 0>>, <<2, 1, 1>>, <<2, 2, 0>>}
CompareArrivals == {0, 1, 2}
CompareStructs ==
  {[jobNumber |-> 0, arrivalTime |-> a, runTime |-> k[1], remainingTime |-> k[2],
    priority |-> k[3], initTime |-> -1, lastTime |-> -1] :
     a \in CompareArrivals, k \in CompareKinds}

InitCompare ==
  /\ status = "running"
  /\ curScheme \in Schemes
  /\ nCores = 0
  /\ cpuJobs = <<>>
  /\ mQueue = <<>>
  /\ heap \in [{1, 2, 3} -> CompareStructs]
  /\ nAlloc = 0
  /\ currentTime = 0
  /\ totalWaitTime = 0 /\ numWaiting = 0
  /\ totalRespTime = 0 /\ numResponse = 0
  /\ totalTurnAroundTime = 0 /\ numTurnAround = 0
  /\ freed = <<>>
  /\ lastArrival = -1
  /\ call = NoCall
  /\ ret = -1

\* compare called on every ordered pair of the structs a, b, c that the
\* result for <<a, b>> is to be read against.
CompareCall ==
  /\ status = "running"
  /\ \E a \in DOMAIN heap, b \in DOMAIN heap, c \in DOMAIN heap :
       /\ call' = [op |-> "compare", a |-> a, b |-> b, c |-> c,
                   ba |-> compare(heap[b], heap[a]),
                   bc |-> compare(heap[b], heap[c]),
                   ac |-> compare(heap[a], heap[c])]
       /\ ret' = compare(heap[a], heap[b])
  /\ UNCHANGED <<status, curScheme, nCores, cpuJobs, mQueue, heap, nAlloc, currentTime,
                 totalWaitTime, numWaiting, totalRespTime, numResponse,
                 totalTurnAroundTime, numTurnAround, freed, lastArrival>>

NextCompare == CompareCall

SpecCompare == InitCompare /\ [][NextCompare]_vars

\* ------------------------------------------------- the queue on its own
\* The library used directly: three elements, of which 1 and 2 compare
\* equal under every scheme and 3 differs in every key.
QueueElems ==
  (1 :> [jobNumber |-> 0, arrivalTime |-> 0, runTime |-> 2, remainingTime |-> 2,
         priority |-> 1, initTime |-> -1, lastTime |-> -1])
  @@ (2 :> [jobNumber |-> 1, arrivalTime |-> 0, runTime |-> 2, remainingTime |-> 2,
            priority |-> 1, initTime |-> -1, lastTime |-> -1])
  @@ (3 :> [jobNumber |-> 2, arrivalTime |-> 1, runTime |-> 1, remainingTime |-> 1,
            priority |-> 0, initTime |-> -1, lastTime |-> -1])

\* What a call of the library can end as after undefined behaviour: killed
\* by the invalid access, or carried on in an unspecified way.
QueueOutcomes(s) == IF s = "ub" THEN {"segv", "undefined"} ELSE {s}

NoQueueCall ==
  [op |-> "none", index |-> 0, ptr |-> NULL, before |-> <<>>,
   prevOp |-> "none", prevPtr |-> NULL, prevBefore |-> <<>>]

\* The record of a call: its arguments, the queue it found, and the same of
\* the call before it.
QueueCall(op, index, ptr) ==
  [op |-> op, index |-> index, ptr |-> ptr, before |-> mQueue,
   prevOp |-> call.op, prevPtr |-> call.ptr, prevBefore |-> call.before]

QueueFrame ==
  UNCHANGED <<curScheme, nCores, cpuJobs, heap, nAlloc, currentTime, totalWaitTime,
              numWaiting, totalRespTime, numResponse, totalTurnAroundTime,
              numTurnAround, freed, lastArrival>>

\* A call ended with r = [status, data, queue].
QueueCommit(r, c) ==
  /\ call' = c
  /\ status' \in QueueOutcomes(r.status)
  /\ IF r.status = "running"
     THEN mQueue' = r.queue /\ ret' = r.data
     ELSE mQueue' = <<>> /\ ret' = -1
  /\ QueueFrame

InitQueue ==
  /\ status = "running"
  /\ curScheme \in Schemes
  /\ nCores = 0
  /\ cpuJobs = <<>>
  /\ mQueue = <<>>
  /\ heap = QueueElems
  /\ nAlloc = 0
  /\ currentTime = 0
  /\ totalWaitTime = 0 /\ numWaiting = 0
  /\ totalRespTime = 0 /\ numResponse = 0
  /\ totalTurnAroundTime = 0 /\ numTurnAround = 0
  /\ freed = <<>>
  /\ lastArrival = -1
  /\ call = NoQueueCall
  /\ ret = -1

QueueOffer ==
  /\ status = "running"
  /\ Len(mQueue) < MaxQueue
  /\ \E ptr \in DOMAIN heap :
       QueueCommit([status |-> "running", data |-> priqueue_offer_index(mQueue, ptr, heap),
                    queue |-> priqueue_offer(mQueue, ptr, heap)],
                   QueueCall("offer", 0, ptr))

QueuePeek ==
  /\ status = "running"
  /\ QueueCommit([status |-> "running", data |-> priqueue_peek(mQueue), queue |-> mQueue],
                 QueueCall("peek", 0, NULL))

QueuePoll ==
  /\ status = "running"
  /\ QueueCommit([status |-> "running", data |-> priqueue_poll(mQueue).data,
                  queue |-> priqueue_poll(mQueue).queue],
                 QueueCall("poll", 0, NULL))

QueueAt ==
  /\ status = "running"
  /\ \E index \in -1 .. MaxQueue :
       QueueCommit(priqueue_at(mQueue, index), QueueCall("at", index, NULL))

QueueRemove ==
  /\ status = "running"
  /\ \E ptr \in DOMAIN heap :
       QueueCommit([status |-> "running", data |-> priqueue_remove_count(mQueue, ptr),
                    queue |-> priqueue_remove(mQueue, ptr)],
                   QueueCall("remove", 0, ptr))

QueueRemoveAt ==
  /\ status = "running"
  /\ \E index \in -1 .. MaxQueue :
       QueueCommit(priqueue_remove_at(mQueue, index), QueueCall("remove_at", index, NULL))

QueueSize ==
  /\ status = "running"
  /\ QueueCommit([status |-> "running", data |-> priqueue_size(mQueue), queue |-> mQueue],
                 QueueCall("size", 0, NULL))

\* priqueue_init on a queue in use, and priqueue_destroy: both return
\* nothing and leave the queue empty and usable.
QueueInit ==
  /\ status = "running"
  /\ QueueCommit([status |-> "running", data |-> ret, queue |-> priqueue_init(mQueue)],
                 QueueCall("init", 0, NULL))

QueueDestroy ==
  /\ status = "running"
  /\ QueueCommit([status |-> "running", data |-> ret, queue |-> priqueue_destroy(mQueue)],
                 QueueCall("destroy", 0, NULL))

NextQueue ==
  \/ QueueInit
  \/ QueueDestroy
  \/ QueueOffer
  \/ QueuePeek
  \/ QueuePoll
  \/ QueueAt
  \/ QueueRemove
  \/ QueueRemoveAt
  \/ QueueSize

SpecQueue == InitQueue /\ [][NextQueue]_vars

\* ---------------------------------------------------------------- claims
QueueSet(q) == {q[i] : i \in 1 .. Len(q)}
CoreSet(jobs) == {jobs[c] : c \in DOMAIN jobs} \ {NULL}
Holders(p) == Cardinality({i \in 1 .. Len(mQueue) : mQueue[i] = p})
              + Cardinality({c \in Cores : cpuJobs[c] = p})
Position(q, p) == CHOOSE i \in 1 .. Len(q) : q[i] = p
AllBusy == \A c \in Cores : cpuJobs[c] # NULL
LowestIdle == CHOOSE c \in Cores : cpuJobs[c] = NULL /\ \A k \in Cores : cpuJobs[k] = NULL => c <= k
PreemptiveScheme == curScheme \in {"PSJF", "PPRI"}
\* The primary key of the two preemptive policies.
PrimaryKey(j) == IF curScheme = "PSJF" THEN j.remainingTime ELSE j.priority

\* The jobs that arrived and were freed by job_finished.
Finished == (1 .. nAlloc) \ DOMAIN heap

\* C1: after every handler, each job that arrived and has not finished is
\* held exactly once (one queue entry or one core), and a finished job is
\* held nowhere.
C1_OneContainer ==
  status = "running" =>
    /\ DOMAIN heap \subseteq 1 .. nAlloc
    /\ DOMAIN freed \subseteq Finished
    /\ \A p \in DOMAIN heap : Holders(p) = 1
    /\ \A p \in Finished : Holders(p) = 0
    /\ QueueSet(mQueue) \cup CoreSet(cpuJobs) \subseteq DOMAIN heap

C1_Witness ==
  /\ status = "running"
  /\ Len(mQueue) >= 1
  /\ CoreSet(cpuJobs) # {}
  /\ Finished # {}
  /\ call.op = "new_job" /\ ret >= 0 /\ PreemptiveScheme

\* C2: the ready queue is sorted non-decreasing by the comparator, and jobs
\* that compare equal stay in the order of their insertion: a step never
\* swaps two of them and never puts a newly inserted job before one that
\* was already queued.
QueueSorted ==
  \A i, k \in 1 .. Len(mQueue) : i < k => compare(heap[mQueue[i]], heap[mQueue[k]]) <= 0

StableStep ==
  \A i, k \in 1 .. Len(mQueue') :
    (i < k /\ compare(heap'[mQueue'[i]], heap'[mQueue'[k]]) = 0) =>
       /\ mQueue'[i] \in QueueSet(mQueue)
       /\ mQueue'[k] \in QueueSet(mQueue) =>
            Position(mQueue, mQueue'[i]) < Position(mQueue, mQueue'[k])

C2_SortedStable == [](status = "running" => QueueSorted) /\ [][StableStep]_vars

C2_Witness ==
  /\ status = "running"
  /\ Len(mQueue) >= 2
  /\ compare(heap[mQueue[1]], heap[mQueue[2]]) = 0
  /\ call.op = "quantum_expired"
  /\ mQueue[2] = call.job

\* C3: under PSJF and PPRI, a job arriving with every core busy and some
\* occupant strictly greater than it takes the core of the greatest
\* occupant (largest primary key, the latest arrival among those); that
\* core is returned and the displaced occupant is queued.
C3_Step ==
  (/\ status = "running" /\ status' = "running"
   /\ call'.op = "new_job"
   /\ PreemptiveScheme
   /\ AllBusy
   /\ \E c \in Cores : compare(heap'[cpuJobs[c]], heap'[call'.job]) > 0)
  => LET v == ret' IN
     /\ v \in Cores
     /\ cpuJobs'[v] = call'.job
     /\ cpuJobs[v] \in QueueSet(mQueue')
     /\ compare(heap'[cpuJobs[v]], heap'[call'.job]) > 0
     /\ \A c \in Cores :
          /\ compare(heap'[cpuJobs[c]], heap'[cpuJobs[v]]) <= 0
          /\ PrimaryKey(heap'[cpuJobs[c]]) <= PrimaryKey(heap'[cpuJobs[v]])
          /\ PrimaryKey(heap'[cpuJobs[c]]) = PrimaryKey(heap'[cpuJobs[v]])
               => heap'[cpuJobs[c]].arrivalTime <= heap'[cpuJobs[v]].arrivalTime
          /\ c # v => cpuJobs'[c] = cpuJobs[c]

C3_PreemptsWorst == [][C3_Step]_vars

C3_Witness ==
  /\ status = "running"
  /\ curScheme = "PSJF"
  /\ nCores = 2
  /\ call.op = "new_job"
  /\ ret = 1
  /\ cpuJobs[1] = call.job
  /\ Len(mQueue) = 1
  /\ compare(heap[cpuJobs[0]], heap[call.job]) > 0
  /\ heap[mQueue[1]].remainingTime > heap[cpuJobs[0]].remainingTime

\* C4: under PSJF and PPRI, when job_arrived queues the new job (returns
\* -1), every running job compares less than or equal to it.
C4_EnqueuedNotBetter ==
  (status = "running" /\ call.op = "new_job" /\ PreemptiveScheme /\ ret = -1)
  => /\ call.job \in QueueSet(mQueue)
     /\ \A c \in Cores :
          /\ cpuJobs[c] # NULL
          /\ compare(heap[cpuJobs[c]], heap[call.job]) <= 0

C4_Witness ==
  /\ status = "running"
  /\ call.op = "new_job"
  /\ PreemptiveScheme
  /\ ret = -1
  /\ nCores = 2
  /\ call.job \in QueueSet(mQueue)

\* C5: under FCFS, SJF, PRI and RR, job_arrived takes no job off a core;
\* with no idle core it returns -1 and only adds the new job to the queue;
\* a job leaves a core only in job_finished or quantum_expired on that core.
C5_Step ==
  (status = "running" /\ status' = "running" /\ curScheme \in {"FCFS", "SJF", "PRI", "RR"})
  => /\ call'.op = "new_job" =>
          /\ \A c \in Cores : cpuJobs[c] # NULL => cpuJobs'[c] = cpuJobs[c]
          /\ AllBusy =>
               /\ ret' = -1
               /\ cpuJobs' = cpuJobs
               /\ Len(mQueue') = Len(mQueue) + 1
               /\ SelectSeq(mQueue', LAMBDA d : d # call'.job) = mQueue
     /\ \A c \in Cores :
          (cpuJobs[c] # NULL /\ cpuJobs'[c] # cpuJobs[c])
          => call'.op \in {"job_finished", "quantum_expired"} /\ call'.core_id = c

C5_NoRelease == [][C5_Step]_vars

C5_Witness ==
  /\ status = "running"
  /\ curScheme = "PRI"
  /\ call.op = "new_job"
  /\ ret = -1
  /\ call.job \in QueueSet(mQueue)
  /\ \E c \in Cores : compare(heap[cpuJobs[c]], heap[call.job]) > 0

\* C6: job_arrived with an idle core puts the new job on the idle core of
\* lowest index and returns that index; no other core and no queue entry
\* changes.
C6_Step ==
  (status = "running" /\ status' = "running" /\ call'.op = "new_job" /\ ~AllBusy)
  => /\ ret' = LowestIdle
     /\ cpuJobs'[LowestIdle] = call'.job
     /\ \A c \in Cores \ {LowestIdle} : cpuJobs'[c] = cpuJobs[c]
     /\ mQueue' = mQueue

C6_LowestIdleCore == [][C6_Step]_vars

C6_Witness ==
  /\ status = "running"
  /\ nCores = 2
  /\ call.op = "new_job"
  /\ ret = 0
  /\ cpuJobs[0] = call.job
  /\ cpuJobs[1] = NULL

\* C7: job_finished on the occupant of core_id removes the job, then puts
\* the queue head (least under the comparator) on core_id and returns its
\* id; it returns -1 and leaves the core idle exactly when the queue was
\* empty; the id returned is not the finished one, no other core changes.
C7_Step ==
  (status = "running" /\ status' = "running" /\ call'.op = "job_finished")
  => LET core == call'.core_id
         job == call'.job
     IN /\ cpuJobs[core] = job
        /\ job \notin DOMAIN heap'
        /\ job \notin QueueSet(mQueue') \cup CoreSet(cpuJobs')
        /\ mQueue # <<>> =>
             /\ cpuJobs'[core] = Head(mQueue)
             /\ mQueue' = Tail(mQueue)
             /\ ret' = heap[Head(mQueue)].jobNumber
             /\ \A i \in 1 .. Len(mQueue) : compare(heap[Head(mQueue)], heap[mQueue[i]]) <= 0
        /\ mQueue = <<>> => cpuJobs'[core] = NULL /\ mQueue' = <<>>
        /\ ret' = -1 <=> mQueue = <<>>
        /\ ret' # call'.job_number
        /\ \A c \in Cores \ {core} : cpuJobs'[c] = cpuJobs[c]

C7_FinishedDispatchesHead == [][C7_Step]_vars

C7_Witness ==
  /\ status = "running"
  /\ call.op = "job_finished"
  /\ ret >= 0
  /\ Len(mQueue) >= 1
  /\ \E c \in Cores : cpuJobs[c] # NULL /\ heap[cpuJobs[c]].jobNumber = ret

\* C8: under RR, quantum_expired puts the running job J behind every queued
\* job and dispatches the head of that queue on the same core (J itself when
\* the queue was empty); a job that arrives with no idle core joins the
\* tail and job_finished dispatches the head, so dispatch is first in,
\* first out.
C8_Step ==
  (status = "running" /\ status' = "running" /\ curScheme = "RR")
  => /\ call'.op = "quantum_expired" =>
          LET core == call'.core_id
              J == cpuJobs[core]
              q == Append(mQueue, J)
          IN /\ cpuJobs'[core] = Head(q)
             /\ mQueue' = Tail(q)
             /\ ret' = heap[Head(q)].jobNumber
             /\ mQueue = <<>> => cpuJobs'[core] = J /\ ret' = heap[J].jobNumber
             /\ \A c \in Cores \ {core} : cpuJobs'[c] = cpuJobs[c]
     /\ (call'.op = "new_job" /\ ret' = -1) => mQueue' = Append(mQueue, call'.job)
     /\ (call'.op = "job_finished" /\ mQueue # <<>>) =>
          cpuJobs'[call'.core_id] = Head(mQueue) /\ mQueue' = Tail(mQueue)

C8_RoundRobinFifo == [][C8_Step]_vars

C8_Witness ==
  /\ status = "running"
  /\ curScheme = "RR"
  /\ call.op = "quantum_expired"
  /\ Len(mQueue) >= 2
  /\ mQueue[Len(mQueue)] = call.job
  /\ heap[call.job].arrivalTime < heap[mQueue[1]].arrivalTime
  /\ ret # call.job_number

\* C9: a job whose job_finished came when its remaining time was zero has
\* completion - arrival >= run time, a credited wait >= 0, and a credited
\* response (first dispatch - arrival) no greater than that wait.
C9_FinishedTimes ==
  \A p \in DOMAIN freed :
    LET f == freed[p] IN
    f.job.remainingTime = 0 =>
      /\ f.time - f.job.arrivalTime >= f.job.runTime
      /\ f.wait = f.time - f.job.arrivalTime - f.job.runTime
      /\ f.wait >= 0
      /\ f.job.initTime # -1 => f.job.initTime - f.job.arrivalTime <= f.wait

C9_Witness ==
  \E p \in DOMAIN freed :
    LET f == freed[p] IN
    /\ f.job.remainingTime = 0
    /\ f.wait > 0
    /\ f.job.initTime # -1
    /\ f.job.initTime - f.job.arrivalTime < f.wait

\* C10: every breach of a precondition by the driver (a job id that is not
\* the occupant's, a core id out of range, an empty slot) ends in the
\* abort of the engine, exit(1).
C10_ViolationsAbort == call.valid = FALSE => status = "exit"

\* C11: a query for what is not there returns NULL and leaves the queue as
\* it was: peek and poll on an empty queue, at(i) and remove_at(i) for every
\* i outside 0 .. size-1, negative i included.
C11_AbsentIsNull ==
  (\/ call.op \in {"peek", "poll"} /\ call.before = <<>>
   \/ call.op \in {"at", "remove_at"} /\ call.index \notin 0 .. (Len(call.before) - 1))
  => /\ status = "running"
     /\ ret = NULL
     /\ mQueue = call.before

\* C12: remove_at(i) for 0 <= i < size, i = 0 included, returns the element
\* that was at i, and leaves the other elements in their order.
C12_RemoveAtIndex ==
  (call.op = "remove_at" /\ call.index \in 0 .. (Len(call.before) - 1))
  => /\ status = "running"
     /\ ret = call.before[call.index + 1]
     /\ Len(mQueue) = Len(call.before) - 1
     /\ mQueue = SubSeq(call.before, 1, call.index)
                 \o SubSeq(call.before, call.index + 2, Len(call.before))

\* C13: on a queue that does not hold r, offer(r) and then remove(r) returns
\* 1 and leaves the queue it started from, entries that compare equal to r
\* included.
C13_OfferRemove ==
  (/\ call.op = "remove" /\ call.prevOp = "offer" /\ call.prevPtr = call.ptr
   /\ call.ptr \notin {call.prevBefore[i] : i \in 1 .. Len(call.prevBefore)})
  => /\ status = "running"
     /\ ret = 1
     /\ mQueue = call.prevBefore

C13_Witness ==
  /\ status = "running"
  /\ call.op = "remove" /\ call.prevOp = "offer" /\ call.prevPtr = call.ptr
  /\ call.ptr \notin {call.prevBefore[i] : i \in 1 .. Len(call.prevBefore)}
  /\ ret = 1
  /\ Len(mQueue) >= 2
  /\ \E i \in 1 .. Len(mQueue) :
       mQueue[i] # call.ptr /\ compare(heap[mQueue[i]], heap[call.ptr]) = 0

\* C14: PSJF on one core with arrivals (1, t=0, run 7), (2, t=2, run 4),
\* (3, t=4, run 1): the arrivals of 2 and 3 return core 0, job_finished
\* comes at t=5 for job 3 and returns 2, at t=7 for job 2 and returns 1, at
\* t=12 for job 1 and returns -1; the waits are 5, 1, 0 (6 over 3 jobs) and
\* every credited response time is 0.
C14_Scenario ==
  (status = "running" /\ curScheme = "PSJF" /\ nCores = 1)
  => /\ (call.op = "new_job" /\ call.job_number \in {2, 3}) => ret = 0
     /\ call.op = "job_finished" =>
          /\ <<currentTime, call.job_number, ret>> \in {<<5, 3, 2>>, <<7, 2, 1>>, <<12, 1, -1>>}
          /\ freed[call.job].wait = CASE call.job_number = 1 -> 5
                                      [] call.job_number = 2 -> 1
                                      [] OTHER -> 0
     /\ totalRespTime = 0
     /\ (nAlloc = Len(ScenarioJobs) /\ heap = <<>>) =>
          /\ totalWaitTime = 6 /\ numWaiting = 3
          /\ numResponse = 3

C14_Witness ==
  /\ status = "running" /\ curScheme = "PSJF" /\ nCores = 1
  /\ call.op = "job_finished" /\ call.job_number = 1
  /\ currentTime = 12 /\ ret = -1
  /\ heap = <<>>
  /\ totalWaitTime = 6 /\ numWaiting = 3 /\ numResponse = 3

\* The struct of job p as a step leaves it: in the heap, or as it was freed.
StructAfter(p) == IF p \in DOMAIN heap' THEN heap'[p] ELSE freed'[p].job

\* Job p is on a core of jobs.
OnCore(jobs, p) == \E c \in DOMAIN jobs : jobs[c] = p

\* The job on core c is without a response time.
Uncredited(c) == cpuJobs[c] # NULL /\ heap[cpuJobs[c]].initTime = -1

\* What the jobs on cores c and up are owed when the time advances: how
\* many are without a response time, and the sum over them of the time they
\* were placed less their arrival time.
RECURSIVE CreditCount(_)
CreditCount(c) ==
  IF c >= nCores THEN 0
  ELSE (IF Uncredited(c) THEN 1 ELSE 0) + CreditCount(c + 1)

RECURSIVE CreditSum(_)
CreditSum(c) ==
  IF c >= nCores THEN 0
  ELSE (IF Uncredited(c)
        THEN heap[cpuJobs[c]].lastTime - heap[cpuJobs[c]].arrivalTime
        ELSE 0) + CreditSum(c + 1)

\* C15: a job is credited with a response time at most once, and exactly at
\* a step that advances the time while the job is on a core it was placed on
\* earlier; the credit is the time it was placed minus its arrival time.  A
\* job placed and displaced at one timestamp is not credited by it.
C15_Step ==
  (status = "running" /\ status' = "running") =>
    /\ \A p \in DOMAIN heap :
         /\ IF heap[p].initTime # -1
            THEN StructAfter(p).initTime = heap[p].initTime
            ELSE IF currentTime' > currentTime /\ OnCore(cpuJobs, p)
            THEN /\ heap[p].lastTime = currentTime
                 /\ StructAfter(p).initTime = heap[p].lastTime
            ELSE StructAfter(p).initTime = -1
         \* placed by this step: the clock of the dispatch starts now
         /\ (OnCore(cpuJobs', p) /\ ~OnCore(cpuJobs, p))
              => heap'[p].lastTime = currentTime'
    /\ \A p \in DOMAIN heap' \ DOMAIN heap :
         /\ heap'[p].initTime = -1
         /\ OnCore(cpuJobs', p) => heap'[p].lastTime = currentTime'
    /\ IF currentTime' > currentTime
       THEN /\ numResponse' = numResponse + CreditCount(0)
            /\ totalRespTime' = totalRespTime + CreditSum(0)
       ELSE numResponse' = numResponse /\ totalRespTime' = totalRespTime

C15_ResponseOnce == [][C15_Step]_vars

\* A job taken off its core by the event that put it there, or by one at the
\* same time, is back in the queue without a response time, while others
\* have been credited.
C15_Witness ==
  /\ status = "running"
  /\ call.op = "quantum_expired"
  /\ call.job \in QueueSet(mQueue)
  /\ heap[call.job].initTime = -1
  /\ numResponse > 0
  /\ totalRespTime > 0

\* A step takes from the remaining time of a job the time it spent on a
\* core, which for a queued job is none.
C16_Step ==
  (status = "running" /\ status' = "running") =>
    /\ \A p \in DOMAIN heap :
         /\ StructAfter(p).runTime = heap[p].runTime
         /\ StructAfter(p).remainingTime =
              heap[p].remainingTime
              - (IF p \in CoreSet(cpuJobs) THEN currentTime' - currentTime ELSE 0)
    /\ \A p \in DOMAIN heap' \ DOMAIN heap :
         heap'[p].remainingTime = heap'[p].runTime

\* C16: with job_finished delivered no later than the time a job runs out,
\* the remaining time of every live job is its running time less the time it
\* has spent on a core, lies in 0 .. running time, and stands still while
\* the job is queued.
C16_RemainingTime ==
  /\ [](\A p \in DOMAIN heap :
          heap[p].remainingTime >= 0 /\ heap[p].remainingTime <= heap[p].runTime)
  /\ [][C16_Step]_vars

\* A job that ran for a while is back in the queue, and a job that has run
\* out is still on its core.
C16_Witness ==
  /\ status = "running"
  /\ \E p \in QueueSet(mQueue) :
       heap[p].remainingTime > 0 /\ heap[p].remainingTime < heap[p].runTime
  /\ \E p \in CoreSet(cpuJobs) : heap[p].remainingTime = 0

\* The key a policy orders by before the arrival time.
PolicyKey(j) ==
  CASE curScheme = "SJF" -> j.runTime
    [] curScheme = "PSJF" -> j.remainingTime
    [] curScheme \in {"PRI", "PPRI"} -> j.priority
    [] OTHER -> 0

\* C17: under FCFS, SJF, PSJF, PRI and PPRI, on jobs with pairwise distinct
\* arrival times, compare is never 0, compare(b, a) has the opposite sign of
\* compare(a, b), the order is transitive, and a comes first exactly when
\* its key is smaller, or equal with an earlier arrival; under RR compare is
\* 0 for every pair.
C17_StrictOrder ==
  call.op = "compare" =>
    LET a == heap[call.a]
        b == heap[call.b]
        c == heap[call.c]
    IN IF curScheme = "RR" THEN ret = 0 /\ call.ba = 0 /\ call.bc = 0 /\ call.ac = 0
       ELSE (/\ a.arrivalTime # b.arrivalTime
             /\ b.arrivalTime # c.arrivalTime
             /\ a.arrivalTime # c.arrivalTime)
            => /\ ret # 0
               /\ ret < 0 <=> call.ba > 0
               /\ (ret < 0 /\ call.bc < 0) => call.ac < 0
               /\ ret < 0 <=> \/ PolicyKey(a) < PolicyKey(b)
                              \/ /\ PolicyKey(a) = PolicyKey(b)
                                 /\ a.arrivalTime < b.arrivalTime

\* A tie in the key decided by the arrival time, in a chain of three.
C17_Witness ==
  /\ call.op = "compare"
  /\ curScheme = "PSJF"
  /\ heap[call.a].remainingTime = heap[call.b].remainingTime
  /\ heap[call.a].arrivalTime < heap[call.b].arrivalTime
  /\ heap[call.c].arrivalTime \notin {heap[call.a].arrivalTime, heap[call.b].arrivalTime}
  /\ ret < 0 /\ call.ba > 0 /\ call.bc < 0 /\ call.ac < 0

\* C18: after every handler, under every policy, a core is idle only when
\* the ready queue is empty, and the core of a quantum_expired still holds a
\* job.
C18_WorkConserving ==
  status = "running" =>
    /\ (\E c \in Cores : cpuJobs[c] = NULL) => mQueue = <<>>
    /\ call.op = "quantum_expired" => cpuJobs[call.core_id] # NULL

\* A time slice ended with jobs waiting: the core went to the head of the
\* queue, and the job it held waits.
C18_Witness ==
  /\ status = "running"
  /\ call.op = "quantum_expired"
  /\ cpuJobs[call.core_id] # NULL
  /\ cpuJobs[call.core_id] # call.job
  /\ call.job \in QueueSet(mQueue)
  /\ Len(mQueue) >= 2

\* C19: under PSJF and PPRI, with unique arrival times, after every handler
\* no queued job compares strictly less than a running job.
C19_NoInversion ==
  (status = "running" /\ curScheme \in {"PSJF", "PPRI"})
  => \A p \in QueueSet(mQueue) : \A c \in Cores :
       cpuJobs[c] # NULL => compare(heap[p], heap[cpuJobs[c]]) >= 0

\* A job preempted after it ran waits behind two running jobs, one of which
\* has the same key and came earlier.
C19_Witness ==
  /\ status = "running"
  /\ curScheme \in {"PSJF", "PPRI"}
  /\ nCores = 2
  /\ call.op = "new_job" /\ ret >= 0
  /\ \E p \in QueueSet(mQueue) :
       /\ heap[p].initTime # -1
       /\ \A c \in Cores : cpuJobs[c] # NULL /\ compare(heap[p], heap[cpuJobs[c]]) > 0
       /\ \E c \in Cores : PrimaryKey(heap[cpuJobs[c]]) = PrimaryKey(heap[p])

\* Nothing is left to run, and every arrival has been counted as finished.
Quiescent ==
  /\ heap = <<>>
  /\ CoreSet(cpuJobs) = {}
  /\ mQueue = <<>>
  /\ numWaiting = nAlloc
  /\ numTurnAround = nAlloc

\* C20: with finitely many arrivals and a driver that delivers job_finished
\* when a running job runs out, every job that arrived is dispatched and
\* finishes, and in the end all cores are idle, the queue is empty and as
\* many jobs are counted for wait and turnaround as arrived.
C20_AllFinish ==
  /\ \A p \in 1 .. MaxJobs :
       /\ (p \in DOMAIN heap) ~> (p \in CoreSet(cpuJobs))
       /\ (p \in DOMAIN heap) ~> (p \in Finished)
  /\ <>[]Quiescent

\* Every job the driver had has arrived and finished, the last of them
\* after it waited in the queue.
C20_Witness ==
  /\ status = "running"
  /\ nAlloc = MaxJobs
  /\ call.op = "job_finished"
  /\ Quiescent
  /\ totalWaitTime > 0

====
